---- MODULE Spec2Model ----
(***************************************************************************)
(* Model of app.py, the Streamlit page that sends a photo of a nitrite     *)
(* test kit to Gemini, parses the reply and keeps a history of results in  *)
(* st.session_state.predictions and in gemini_predictions.csv.             *)
(*                                                                         *)
(* A reply text is a sequence of tokens; each token stands for a run of    *)
(* characters that the two regular expressions and json.loads treat as a   *)
(* unit:                                                                   *)
(*   "{" "}" "," "." "-"   the characters themselves                       *)
(*   "0" "1" "5" "9"       decimal digits                                  *)
(*   "nl"                  a line break (JSON whitespace, and the one      *)
(*                         character "." does not match without DOTALL)    *)
(*   "P" "C" "E" "T"       the JSON keys "predicted_level": "confidence":  *)
(*                         "explanation": "tube_description": (with their  *)
(*                         quotes and colon)                               *)
(*   "S"                   a JSON string literal holding no keyword/digit  *)
(*   "level" "Level" "prediction" "confidence" "Confidence"                *)
(*                         the bare words, in prose                        *)
(*   "x"                   any other run of prose characters               *)
(* Numbers are kept exactly, as integers in units of 1/Scale.              *)
(***************************************************************************)
EXTENDS Integers, Sequences, FiniteSets, TLC

VARIABLES
    api_key,      \* sidebar text_input
    unit,         \* sidebar selectbox
    uploaded,     \* file_uploader holds an image
    predictions,  \* st.session_state.predictions
    csv,          \* gemini_predictions.csv on disk
    clock,        \* wall clock, in seconds
    page,         \* what the last run of the script did and rendered
    text,         \* reply text under analysis (parser specification)
    result,       \* value returned by analyze_with_gemini (parser specification)
    pc            \* position of the parser specification

vars == <<api_key, unit, uploaded, predictions, csv, clock, page, text, result, pc>>

appVars == <<api_key, unit, uploaded, predictions, csv, clock, page>>

parseVars == <<text, result, pc>>

-----------------------------------------------------------------------------
(* Bounds *)

MaxLen == 4

MaxHistory == 2

MaxClock == 1

-----------------------------------------------------------------------------
(* Numbers and values *)

RECURSIVE Pow10(_)
Pow10(n) == IF n = 0 THEN 1 ELSE 10 * Pow10(n - 1)

\* Every fraction a text of the bounded length can spell is a multiple of 1/Scale.
FracDigits == MaxLen

Scale == Pow10(FracDigits)

Digits == {"0", "1", "5", "9"}

IsDigit(t) == t \in Digits

DigitVal(t) == CASE t = "0" -> 0 [] t = "1" -> 1 [] t = "5" -> 5 [] t = "9" -> 9

\* int() of a run of digits
RECURSIVE ToInt(_)
ToInt(ds) == IF ds = <<>> THEN 0
             ELSE 10 * ToInt(SubSeq(ds, 1, Len(ds) - 1)) + DigitVal(ds[Len(ds)])

\* A Python value as the page handles it: a number, a str spelled by tokens,
\* a JSON string literal, a nested JSON object, or no value.
Num(n) == [t |-> "num", n |-> n, s |-> <<>>]

Str(toks) == [t |-> "str", n |-> 0, s |-> toks]

JsonStr == [t |-> "str", n |-> 0, s |-> <<"S">>]

JsonObj == [t |-> "obj", n |-> 0, s |-> <<>>]

Absent == [t |-> "absent", n |-> 0, s |-> <<>>]

\* float() of digits, optional point, optional digits
FloatOf(ip, fp) == ToInt(ip) * Scale + ToInt(fp) * Pow10(FracDigits - Len(fp))

-----------------------------------------------------------------------------
(* The regular expressions of analyze_with_gemini and parse_text_response *)

\* the position of the first token equal to t at or after i, 0 when there is none
RECURSIVE FirstAt(_, _, _)
FirstAt(txt, t, i) ==
    IF i > Len(txt) THEN 0
    ELSE IF txt[i] = t THEN i
    ELSE FirstAt(txt, t, i + 1)

\* the position of the last token equal to t at or before i, 0 when there is none
RECURSIVE LastAt(_, _, _)
LastAt(txt, t, i) ==
    IF i < 1 THEN 0
    ELSE IF txt[i] = t THEN i
    ELSE LastAt(txt, t, i - 1)

\* re.search(r'\{.*\}', text, re.DOTALL): leftmost "{", and greedy .* with
\* DOTALL runs to the last "}" of the text.  <<>> stands for no match.
json_match(txt) ==
    LET open  == FirstAt(txt, "{", 1)
        close == LastAt(txt, "}", Len(txt))
    IN  IF open # 0 /\ close > open THEN SubSeq(txt, open, close) ELSE <<>>

\* tokens that hold "level" or "prediction", in any case (re.IGNORECASE)
IsLevelWord(t) == t \in {"level", "Level", "prediction", "P"}

\* tokens that hold "confidence", in any case (re.IGNORECASE)
IsConfidenceWord(t) == t \in {"confidence", "Confidence", "C"}

\* \d+ is greedy: the last position of the run of digits that starts at i
RECURSIVE DigitRunEnd(_, _)
DigitRunEnd(txt, i) ==
    IF i + 1 <= Len(txt) /\ IsDigit(txt[i + 1]) THEN DigitRunEnd(txt, i + 1) ELSE i

\* .*? is lazy and "." does not match a line break: the first digit at or
\* after i that is reached without crossing a line break, 0 when there is none
RECURSIVE LazyToDigit(_, _)
LazyToDigit(txt, i) ==
    IF i > Len(txt) THEN 0
    ELSE IF IsDigit(txt[i]) THEN i
    ELSE IF txt[i] = "nl" THEN 0
    ELSE LazyToDigit(txt, i + 1)

NoMatch == [found |-> FALSE, ip |-> <<>>, point |-> FALSE, fp |-> <<>>]

\* group(1) of (\d+\.?\d*) matched at the digit at position d
LevelGroup(txt, d) ==
    LET e     == DigitRunEnd(txt, d)
        point == e + 1 <= Len(txt) /\ txt[e + 1] = "."
        f     == IF point /\ e + 2 <= Len(txt) /\ IsDigit(txt[e + 2])
                 THEN DigitRunEnd(txt, e + 2) ELSE e + 1
    IN  [found |-> TRUE, ip |-> SubSeq(txt, d, e), point |-> point,
         fp |-> IF point THEN SubSeq(txt, e + 2, f) ELSE <<>>]

\* re.search(r'(?:level|prediction).*?(\d+\.?\d*)', text, re.IGNORECASE):
\* the leftmost word from which a digit is reached on the same line
RECURSIVE level_match_from(_, _)
level_match_from(txt, i) ==
    IF i > Len(txt) THEN NoMatch
    ELSE IF IsLevelWord(txt[i]) /\ LazyToDigit(txt, i + 1) # 0
         THEN LevelGroup(txt, LazyToDigit(txt, i + 1))
    ELSE level_match_from(txt, i + 1)

level_match(txt) == level_match_from(txt, 1)

\* re.search(r'confidence.*?(\d+)', text, re.IGNORECASE)
RECURSIVE confidence_match_from(_, _)
confidence_match_from(txt, i) ==
    IF i > Len(txt) THEN NoMatch
    ELSE IF IsConfidenceWord(txt[i]) /\ LazyToDigit(txt, i + 1) # 0
         THEN LET d == LazyToDigit(txt, i + 1)
              IN  [found |-> TRUE, ip |-> SubSeq(txt, d, DigitRunEnd(txt, d)),
                   point |-> FALSE, fp |-> <<>>]
    ELSE confidence_match_from(txt, i + 1)

confidence_match(txt) == confidence_match_from(txt, 1)

\* float(s) raises ValueError unless s is digits, at most one point, digits,
\* with a digit somewhere
FloatOk(m) == (m.ip # <<>> \/ m.fp # <<>>) /\ (m.fp # <<>> => m.point)

-----------------------------------------------------------------------------
(* json.loads on the matched span *)

\* the keys a reply can hold, by token
KeyOf(t) == CASE t = "P" -> "predicted_level"
              [] t = "C" -> "confidence"
              [] t = "E" -> "explanation"
              [] t = "T" -> "tube_description"

KeyTokens == {"P", "C", "E", "T"}

\* a dict: the keys it has, and the values of the three keys main() reads
EmptyDict == [has |-> {}, predicted_level |-> Absent, confidence |-> Absent,
              explanation |-> Absent]

\* d[k] = v; a repeated key keeps the last value, as json.loads does
DictSet(d, k, v) ==
    [has |-> d.has \cup {k},
     predicted_level |-> IF k = "predicted_level" THEN v ELSE d.predicted_level,
     confidence |-> IF k = "confidence" THEN v ELSE d.confidence,
     explanation |-> IF k = "explanation" THEN v ELSE d.explanation]

\* JSON whitespace between tokens
RECURSIVE SkipWs(_, _)
SkipWs(txt, i) ==
    IF i <= Len(txt) /\ txt[i] = "nl" THEN SkipWs(txt, i + 1) ELSE i

\* what a parsing step returns: whether it parsed, the position after what it
\* parsed, the value, and (for an object) the dict
ParseFail == [ok |-> FALSE, next |-> 0, val |-> Absent, dict |-> EmptyDict]

Parsed(next, val, dict) == [ok |-> TRUE, next |-> next, val |-> val, dict |-> dict]

\* a JSON number at i: -? (0 | [1-9][0-9]*) (\. [0-9]+)?
ParseNumber(txt, i) ==
    LET neg == txt[i] = "-"
        d   == IF neg THEN i + 1 ELSE i
    IN  IF d > Len(txt) \/ ~IsDigit(txt[d]) THEN ParseFail
        ELSE LET e     == IF txt[d] = "0" THEN d ELSE DigitRunEnd(txt, d)
                 point == e + 1 <= Len(txt) /\ txt[e + 1] = "."
                 frac  == point /\ e + 2 <= Len(txt) /\ IsDigit(txt[e + 2])
                 f     == IF frac THEN DigitRunEnd(txt, e + 2) ELSE e
                 mag   == FloatOf(SubSeq(txt, d, e),
                                  IF frac THEN SubSeq(txt, e + 2, f) ELSE <<>>)
             IN  Parsed(f + 1, Num(IF neg THEN 0 - mag ELSE mag), EmptyDict)

RECURSIVE ParseValue(_, _), ParseObject(_, _), ParseMembers(_, _, _)

\* a JSON value at i: a number, a string or an object
ParseValue(txt, i) ==
    IF i > Len(txt) THEN ParseFail
    ELSE IF txt[i] = "S" THEN Parsed(i + 1, JsonStr, EmptyDict)
    ELSE IF txt[i] = "{" THEN
        LET o == ParseObject(txt, i)
        IN  IF o.ok THEN Parsed(o.next, JsonObj, EmptyDict) ELSE ParseFail
    ELSE IF txt[i] = "-" \/ IsDigit(txt[i]) THEN ParseNumber(txt, i)
    ELSE ParseFail

\* a JSON object whose "{" is at i
ParseObject(txt, i) ==
    LET j == SkipWs(txt, i + 1)
    IN  IF j > Len(txt) THEN ParseFail
        ELSE IF txt[j] = "}" THEN Parsed(j + 1, JsonObj, EmptyDict)
        ELSE ParseMembers(txt, j, EmptyDict)

\* the members of an object from the key at i on, added to d
ParseMembers(txt, i, d) ==
    IF i > Len(txt) \/ txt[i] \notin KeyTokens THEN ParseFail
    ELSE LET v == ParseValue(txt, SkipWs(txt, i + 1))
             k == SkipWs(txt, v.next)
             e == DictSet(d, KeyOf(txt[i]), v.val)
         IN  IF ~v.ok \/ k > Len(txt) THEN ParseFail
             ELSE IF txt[k] = "}" THEN Parsed(k + 1, JsonObj, e)
             ELSE IF txt[k] = "," THEN ParseMembers(txt, SkipWs(txt, k + 1), e)
             ELSE ParseFail

\* json.loads(span) for a span that starts with "{": the dict, or
\* JSONDecodeError (ok = FALSE), also for data after the object's "}"
json_loads(span) ==
    LET o == ParseObject(span, 1)
    IN  IF o.ok /\ o.next = Len(span) + 1 THEN o ELSE ParseFail

-----------------------------------------------------------------------------
(* parse_text_response and analyze_with_gemini *)

None == [tag |-> "None", d |-> EmptyDict]

Dict(d) == [tag |-> "dict", d |-> d]

\* len(text): the page truncates the explanation at 200 characters
TokenLen(t) ==
    CASE t = "P" -> 18 [] t = "C" -> 13 [] t = "E" -> 14 [] t = "T" -> 19
      [] t = "S" -> 6
      [] t \in {"level", "Level"} -> 5
      [] t \in {"confidence", "Confidence", "prediction"} -> 10
      [] OTHER -> 1

RECURSIVE CharLen(_)
CharLen(txt) == IF txt = <<>> THEN 0 ELSE TokenLen(Head(txt)) + CharLen(Tail(txt))

ExplanationMax == 200

\* the longest prefix of whole tokens within n characters
RECURSIVE TakeChars(_, _)
TakeChars(txt, n) ==
    IF txt = <<>> \/ TokenLen(Head(txt)) > n THEN <<>>
    ELSE <<Head(txt)>> \o TakeChars(Tail(txt), n - TokenLen(Head(txt)))

\* text[:200] + "..." if len(text) > 200 else text
Explanation(txt) ==
    IF CharLen(txt) > ExplanationMax
    THEN Str(TakeChars(txt, ExplanationMax) \o <<"...">>)
    ELSE Str(txt)

\* the record of the bare except of parse_text_response
DefaultResult ==
    Dict([has |-> {"predicted_level", "confidence", "explanation", "tube_description"},
          predicted_level |-> Num(1 * Scale),
          confidence |-> Num(50 * Scale),
          explanation |-> Str(<<"Could not parse detailed results">>)])

\* parse_text_response with 0.0 as the confidence of a text that names none
parse_text_response_zero_default(txt) ==
    LET lm == level_match(txt)
        cm == confidence_match(txt)
    IN  Dict([has |-> {"predicted_level", "confidence", "explanation",
                       "tube_description"},
              predicted_level |->
                  IF lm.found THEN Num(FloatOf(lm.ip, lm.fp)) ELSE Num(1 * Scale),
              confidence |->
                  IF cm.found THEN Num(FloatOf(cm.ip, cm.fp)) ELSE Num(0),
              explanation |-> Explanation(txt)])

parse_text_response(txt) ==
    LET lm == level_match(txt)
        cm == confidence_match(txt)
    IN  IF (lm.found /\ ~FloatOk(lm)) \/ (cm.found /\ ~FloatOk(cm))
        THEN DefaultResult
        ELSE Dict([has |-> {"predicted_level", "confidence", "explanation",
                            "tube_description"},
                   predicted_level |->
                       IF lm.found THEN Num(FloatOf(lm.ip, lm.fp)) ELSE Num(1 * Scale),
                   confidence |->
                       IF cm.found THEN Num(FloatOf(cm.ip, cm.fp)) ELSE Num(50 * Scale),
                   explanation |-> Explanation(txt)])

\* parse_reply without `except json.JSONDecodeError`: the error reaches the
\* outer handler, which returns None
parse_reply_uncaught(txt) ==
    LET span == json_match(txt)
    IN  IF span # <<>>
        THEN IF json_loads(span).ok THEN Dict(json_loads(span).dict)
             ELSE [tag |-> "None", d |-> EmptyDict]
        ELSE parse_text_response(txt)

\* lines 62-74: the reply text was read; parse it
parse_reply(txt) ==
    LET span == json_match(txt)
    IN  IF span # <<>>
        THEN IF json_loads(span).ok THEN Dict(json_loads(span).dict)
             ELSE parse_text_response(txt)
        ELSE parse_text_response(txt)

\* what generate_content and response.text do: raise, or give a reply text
Raised == [raised |-> TRUE, text |-> <<>>]

Reply(txt) == [raised |-> FALSE, text |-> txt]

\* analyze_with_gemini with the default record, not None, when the call raises
analyze_with_gemini_default_on_error(call) ==
    IF call.raised THEN DefaultResult ELSE parse_reply(call.text)

analyze_with_gemini(call) ==
    IF call.raised THEN None ELSE parse_reply(call.text)

-----------------------------------------------------------------------------
(* The history: st.session_state.predictions and gemini_predictions.csv *)

Units == {"mg/L", "ppm"}

DefaultUnit == "mg/L"

Columns == <<"timestamp", "predicted_level", "confidence", "unit", "explanation">>

NoFile == [exists |-> FALSE, header |-> <<>>, rows |-> <<>>]

\* one line of the file: the cells of a record in column order
CsvRow(p) == <<p.timestamp, p.predicted_level, p.confidence, p.unit, p.explanation>>

\* to_csv with mode='a': the new record's line after what the file held
to_csv_append(preds) ==
    [exists |-> TRUE, header |-> Columns,
     rows |-> csv.rows \o <<CsvRow(preds[Len(preds)])>>]

\* pd.DataFrame(predictions).to_csv('gemini_predictions.csv', index=False):
\* the file is opened for writing, so what it held is gone
to_csv(preds) ==
    [exists |-> TRUE, header |-> Columns,
     rows |-> [i \in 1..Len(preds) |-> CsvRow(preds[i])]]

\* save_prediction(level, confidence, unit, explanation) at time now: the
\* session's list, then the file
new_prediction(level, confidence, un, explanation, now) ==
    [timestamp |-> now, predicted_level |-> level, confidence |-> confidence,
     unit |-> un, explanation |-> explanation]

\* save_prediction with insert(0, new_prediction)
save_prediction_list_front(preds, level, confidence, un, explanation, now) ==
    <<new_prediction(level, confidence, un, explanation, now)>> \o preds

save_prediction_list(preds, level, confidence, un, explanation, now) ==
    Append(preds, new_prediction(level, confidence, un, explanation, now))

save_prediction_file(preds, level, confidence, un, explanation, now) ==
    to_csv(save_prediction_list(preds, level, confidence, un, explanation, now))

\* the Clear History branch, lines 241-243
clear_list == <<>>

\* the Clear History branch without os.remove
clear_file_keeps(file) == file

clear_file(file) == IF file.exists THEN NoFile ELSE file

-----------------------------------------------------------------------------
(* main(): one run of the script *)

Keys == {"", "key"}

NotRun == [tag |-> "not run", d |-> EmptyDict]

\* the replies the external model gives in the page specification
Replies ==
    { <<"{", "P", "1", ".", "5", ",", "C", "9", "5", ",", "E", "S", "}">>,
      <<"x", "{", "nl", "P", "5", ",", "C", "1", "5", "0", "nl", "}">>,
      <<"{", "}">>,
      <<"{", "P", "1", "}">>,
      <<"{", "P", "1", ",", "C", "S", "}">>,
      <<"{", "P", "S", ",", "C", "9", "0", "}">>,
      <<"{", "P", "1", ",", "C", "-", "5", "}">>,
      <<"{", "T", "S", "}">>,
      <<"x", "Level", "0", ".", "5", "nl", "Confidence", "9", "0">>,
      <<"confidence", "1", "5", "0">> }

Calls == {Raised} \cup {Reply(r) : r \in Replies}

\* setup_gemini(api_key): True unless genai.configure raises
setup_gemini(configure_ok) == configure_ok

\* lines 138-141 without `if api_key:`
api_key_valid_unchecked(key, configure_ok) == setup_gemini(configure_ok)

\* lines 138-141
api_key_valid(key, configure_ok) ==
    IF key # "" THEN setup_gemini(configure_ok) ELSE FALSE

\* `if result:` a dict is true unless it is empty
Truthy(r) == r.tag = "dict" /\ r.d.has # {}

\* st.progress(value) with a float raises StreamlitAPIException unless
\* 0.0 <= value <= 1.0; value is result['confidence'] / 100
ProgressOk(confidence) == confidence.n >= 0 /\ confidence.n <= 100 * Scale

\* lines 178-197: how far the run gets with a true result before
\* save_prediction: the exception that ends it, or "" when it saves
display_raises(r) ==
    IF "predicted_level" \notin r.d.has THEN "KeyError"
    ELSE IF "confidence" \notin r.d.has THEN "KeyError"
    ELSE IF r.d.confidence.t # "num" THEN "FormatError"
    ELSE IF ~ProgressOk(r.d.confidence) THEN "StreamlitAPIException"
    ELSE ""

\* st.markdown of lines 183-186 ran: level and confidence are on the page
displayed(r) == Truthy(r) /\ display_raises(r) \in {"", "StreamlitAPIException"}

\* save_prediction of lines 192-197 ran
saved(r) == Truthy(r) /\ display_raises(r) = ""

\* result.get('explanation', '')
explanation_of(r) ==
    IF "explanation" \in r.d.has THEN r.d.explanation ELSE Str(<<>>)

\* lines 230-237: with more than one row the averages are computed, and
\* mean() of a column that holds a str or a dict raises TypeError
stats_raise(preds) ==
    Len(preds) > 1 /\ \E i \in 1..Len(preds) : preds[i].predicted_level.t # "num"

\* the banners of the run
Banners(key, valid, pressed, call, r) ==
    (IF key # "" /\ ~valid THEN {"Invalid API key"} ELSE {})
    \cup (IF pressed /\ ~valid
          THEN {"Please enter a valid Gemini API key in the sidebar"} ELSE {})
    \cup (IF pressed /\ valid /\ call.raised THEN {"Error analyzing image"} ELSE {})
    \cup (IF pressed /\ valid /\ ~Truthy(r)
          THEN {"Could not analyze the image. Please try again."} ELSE {})

\* the Clear History button outside `if st.session_state.predictions:`
clear_button_always(reached, preds) == reached

\* lines 223 and 240: the Clear History button is rendered when the run
\* reaches the history section with a list that is not empty
clear_button_rendered(reached, preds) ==
    reached /\ preds # <<>> /\ ~stats_raise(preds)

\* What a run of the script leaves on the page.  event names the interaction
\* that started the run, pressed whether it was the Analyze button, r what
\* analyze_with_gemini returned (NotRun when it was not called), preds the
\* session's list when the history section is reached.
Render(event, key, valid, up, pressed, call, r, preds) ==
    LET exc == IF pressed /\ valid /\ Truthy(r) /\ display_raises(r) # ""
               THEN display_raises(r)
               ELSE IF stats_raise(preds) THEN "TypeError" ELSE ""
        history == ~(pressed /\ valid /\ Truthy(r) /\ display_raises(r) # "")
    IN  [event |-> event,
         key_valid |-> valid,
         call |-> IF ~(pressed /\ valid) THEN "none"
                  ELSE IF call.raised THEN "raised" ELSE "replied",
         result |-> r,
         shown |-> pressed /\ valid /\ displayed(r),
         shown_level |-> IF pressed /\ valid /\ displayed(r)
                         THEN r.d.predicted_level ELSE Absent,
         shown_confidence |-> IF pressed /\ valid /\ displayed(r)
                              THEN r.d.confidence ELSE Absent,
         banners |-> Banners(key, valid, pressed, call, r),
         exception |-> exc,
         analyze_button |-> IF ~up THEN "absent"
                            ELSE IF valid THEN "enabled" ELSE "disabled",
         clear_button |-> clear_button_rendered(history, preds)]

\* a run that no button started
Idle(event, key, valid, up, preds) ==
    Render(event, key, valid, up, FALSE, Raised, NotRun, preds)

-----------------------------------------------------------------------------
(* The page specification *)

Init ==
    /\ api_key = ""
    /\ unit = DefaultUnit
    /\ uploaded = FALSE
    /\ predictions = <<>>
    /\ csv = NoFile
    /\ clock = 0
    /\ page = Idle("start", "", FALSE, FALSE, <<>>)
    /\ text = <<>>
    /\ result = NotRun
    /\ pc = "page"

\* a new browser session: lines 17-19 give it an empty list; the file stays
NewSession ==
    /\ api_key' = ""
    /\ unit' = DefaultUnit
    /\ uploaded' = FALSE
    /\ predictions' = <<>>
    /\ page' = Idle("start", "", FALSE, FALSE, <<>>)
    /\ UNCHANGED <<csv, clock, parseVars>>

SetApiKey ==
    \E k \in Keys \ {api_key}, ok \in BOOLEAN :
        /\ api_key' = k
        /\ page' = Idle("input", k, api_key_valid(k, ok), uploaded, predictions)
        /\ UNCHANGED <<unit, uploaded, predictions, csv, clock, parseVars>>

SelectUnit ==
    \E u \in Units \ {unit}, ok \in BOOLEAN :
        /\ unit' = u
        /\ page' = Idle("input", api_key, api_key_valid(api_key, ok), uploaded,
                        predictions)
        /\ UNCHANGED <<api_key, uploaded, predictions, csv, clock, parseVars>>

UploadFile ==
    \E ok \in BOOLEAN :
        /\ uploaded' = ~uploaded
        /\ page' = Idle("input", api_key, api_key_valid(api_key, ok), ~uploaded,
                        predictions)
        /\ UNCHANGED <<api_key, unit, predictions, csv, clock, parseVars>>

\* the Analyze button, lines 171-217, then the history section (the history
\* is explored up to MaxHistory records)
PressAnalyze ==
    /\ page.analyze_button = "enabled"
    /\ Len(predictions) < MaxHistory
    /\ \E ok \in BOOLEAN, call \in Calls :
        \E r \in {IF api_key_valid(api_key, ok) THEN analyze_with_gemini(call)
                  ELSE NotRun} :
            \E save \in {api_key_valid(api_key, ok) /\ saved(r)} :
                /\ predictions' =
                       IF save
                       THEN save_prediction_list(predictions, r.d.predicted_level,
                                r.d.confidence, unit, explanation_of(r), clock)
                       ELSE predictions
                /\ csv' =
                       IF save
                       THEN save_prediction_file(predictions, r.d.predicted_level,
                                r.d.confidence, unit, explanation_of(r), clock)
                       ELSE csv
                /\ page' = Render("analyze", api_key, api_key_valid(api_key, ok),
                                  uploaded, TRUE, call, r, predictions')
    /\ UNCHANGED <<api_key, unit, uploaded, clock, parseVars>>

\* the Clear History button, lines 240-244: the list, the file, then
\* st.rerun() runs the script again
PressClear ==
    /\ page.clear_button
    /\ \E ok \in BOOLEAN :
        /\ predictions' = clear_list
        /\ csv' = clear_file(csv)
        /\ page' = Idle("clear", api_key, api_key_valid(api_key, ok), uploaded,
                        clear_list)
    /\ UNCHANGED <<api_key, unit, uploaded, clock, parseVars>>

\* a second passes
Tick ==
    /\ clock < MaxClock
    /\ clock' = clock + 1
    /\ UNCHANGED <<api_key, unit, uploaded, predictions, csv, page, parseVars>>

Next ==
    \/ Tick
    \/ NewSession
    \/ SetApiKey
    \/ SelectUnit
    \/ UploadFile
    \/ PressAnalyze
    \/ PressClear

Spec == Init /\ [][Next]_vars

-----------------------------------------------------------------------------
(* The parser specification: analyze_with_gemini on every short reply *)

TextAlphabet ==
    {"{", "}", ",", "P", "C", "level", "confidence", ".", "0", "1", "5", "nl", "x"}

Texts == UNION {[1..n -> TextAlphabet] : n \in 0..MaxLen}

InitParse ==
    /\ api_key = ""
    /\ unit = DefaultUnit
    /\ uploaded = FALSE
    /\ predictions = <<>>
    /\ csv = NoFile
    /\ clock = 0
    /\ page = Idle("start", "", FALSE, FALSE, <<>>)
    /\ text \in Texts
    /\ result = NotRun
    /\ pc = "call"

\* generate_content returned and response.text is the text
GeminiReplies ==
    /\ pc = "call"
    /\ result' = analyze_with_gemini(Reply(text))
    /\ pc' = "replied"
    /\ UNCHANGED <<appVars, text>>

\* generate_content or response.text raised
GeminiRaises ==
    /\ pc = "call"
    /\ result' = analyze_with_gemini(Raised)
    /\ pc' = "raised"
    /\ UNCHANGED <<appVars, text>>

NextParse ==
    \/ GeminiReplies
    \/ GeminiRaises

SpecParse == InitParse /\ [][NextParse]_vars

-----------------------------------------------------------------------------
(* Properties of the reply parser, under SpecParse *)

\* the matched span does not load, or there is no span
NotJson(txt) == json_match(txt) = <<>> \/ ~json_loads(json_match(txt)).ok

\* the level pattern matches somewhere: a level word, then a digit later on
\* the same line
LevelPatternMatches(txt) ==
    \E i, j \in 1..Len(txt) :
        /\ i < j
        /\ IsLevelWord(txt[i])
        /\ IsDigit(txt[j])
        /\ \A k \in (i + 1)..(j - 1) : txt[k] # "nl"

\* the confidence pattern matches somewhere
ConfidencePatternMatches(txt) ==
    \E i, j \in 1..Len(txt) :
        /\ i < j
        /\ IsConfidenceWord(txt[i])
        /\ IsDigit(txt[j])
        /\ \A k \in (i + 1)..(j - 1) : txt[k] # "nl"

\* C1: for every reply text analyze_with_gemini returns a result that is not
\* None; a reply whose brace span does not load as JSON, or that has no such
\* span, gets the record of parse_text_response, which holds predicted_level,
\* confidence and explanation.
C1_ReplyAlwaysYieldsResult ==
    pc = "replied" =>
        /\ result.tag = "dict"
        /\ NotJson(text) =>
            /\ {"predicted_level", "confidence", "explanation"} \subseteq result.d.has
            /\ result.d.predicted_level.t = "num"
            /\ result.d.confidence.t = "num"
            /\ result.d.explanation.t = "str"

\* a reply with braces around something that is not JSON was parsed as text
C1_Witness ==
    /\ pc = "replied"
    /\ json_match(text) # <<>>
    /\ ~json_loads(json_match(text)).ok
    /\ result.tag = "dict"
    /\ result.d.confidence.t = "num"

\* C6 as stated: when the reply is not JSON and the level pattern or the
\* confidence pattern does not match, the record is level 1.0 and
\* confidence 50.0.
C6_DefaultWhenEitherPatternFails ==
    (pc = "replied" /\ NotJson(text)
        /\ (~LevelPatternMatches(text) \/ ~ConfidencePatternMatches(text)))
    => /\ result.d.predicted_level = Num(1 * Scale)
       /\ result.d.confidence = Num(50 * Scale)

\* C6, amended: when the reply is not JSON, each field falls back on its
\* own: the level is 1.0 when the level pattern does not match and the
\* confidence is 50.0 when the confidence pattern does not match, so the
\* record is (1.0, 50.0) when neither pattern matches.
C6_DefaultPerField ==
    (pc = "replied" /\ NotJson(text)) =>
        /\ ~LevelPatternMatches(text) => result.d.predicted_level = Num(1 * Scale)
        /\ ~ConfidencePatternMatches(text) => result.d.confidence = Num(50 * Scale)

\* only the level pattern fails, and the confidence read from the text stands
C6_Witness ==
    /\ pc = "replied"
    /\ NotJson(text)
    /\ ~LevelPatternMatches(text)
    /\ ConfidencePatternMatches(text)
    /\ result.d.predicted_level = Num(1 * Scale)
    /\ result.d.confidence # Num(50 * Scale)

-----------------------------------------------------------------------------
(* Properties of the page, under Spec *)

\* a confidence in [0, 100]
InRange(v) == v.t = "num" /\ v.n >= 0 /\ v.n <= 100 * Scale

\* the record a line of the file spells
RecordOfRow(row) ==
    [timestamp |-> row[1], predicted_level |-> row[2], confidence |-> row[3],
     unit |-> row[4], explanation |-> row[5]]

\* the last run was a press of Analyze that reached save_prediction
JustSaved == page.event = "analyze" /\ page.call = "replied" /\ saved(page.result)

\* the step is a run of the script that interaction e started (a step that
\* moves the clock runs nothing and leaves the page as it was)
Ran(e) == clock' = clock /\ page'.event = e

\* C2: the confidence on the page and the confidence of every record of the
\* list and of the file is in [0, 100].
C2_ConfidenceInRange ==
    /\ page.shown => InRange(page.shown_confidence)
    /\ \A i \in 1..Len(predictions) : InRange(predictions[i].confidence)
    /\ \A i \in 1..Len(csv.rows) : InRange(csv.rows[i][3])

\* C3: a press of Analyze for which analyze_with_gemini returned a result
\* that is not None makes the list exactly one record longer.
C3_SuccessAppendsOne ==
    [][(Ran("analyze") /\ page'.call # "none" /\ page'.result.tag = "dict")
        => Len(predictions') = Len(predictions) + 1]_vars

\* C4: after Clear History the list is empty and the file does not exist.
C4_ClearEmptiesBoth ==
    page.event = "clear" => (predictions = <<>> /\ ~csv.exists)

\* Clear History has run
C4_Witness ==
    /\ page.event = "clear"
    /\ predictions = <<>>
    /\ csv = NoFile
    /\ ~page.clear_button
    /\ api_key # ""

\* C5: after every save_prediction the file holds the header and exactly the
\* records of the list, in the list's order, whatever the file held before.
C5_FileMirrorsList ==
    JustSaved =>
        /\ csv.exists
        /\ csv.header = Columns
        /\ Len(csv.rows) = Len(predictions)
        /\ \A i \in 1..Len(predictions) : RecordOfRow(csv.rows[i]) = predictions[i]

\* two records saved, the file holding both in order
C5_Witness ==
    /\ JustSaved
    /\ Len(predictions) = 2
    /\ predictions[1] # predictions[2]
    /\ Len(csv.rows) = 2
    /\ RecordOfRow(csv.rows[2]) = predictions[2]

\* C7: when the call of the external model raises, analyze_with_gemini
\* returns None, the error banners are shown, and the list and the file are
\* what they were before the press.
C7_RaiseChangesNothing ==
    [][(Ran("analyze") /\ page'.call = "raised") =>
        /\ page'.result = None
        /\ "Error analyzing image" \in page'.banners
        /\ ~page'.shown
        /\ predictions' = predictions
        /\ csv' = csv]_vars

\* the call raised with records in the history
C7_Witness ==
    /\ page.event = "analyze"
    /\ page.call = "raised"
    /\ page.result = None
    /\ predictions # <<>>
    /\ csv.exists

\* C8: within a session a step leaves the list alone, or puts one record
\* after the records it held, which stay as they were and where they were,
\* or is Clear History and empties it.
C8_AppendOnly ==
    [][~Ran("start") =>
        \/ predictions' = predictions
        \/ /\ Ran("analyze")
           /\ Len(predictions') = Len(predictions) + 1
           /\ SubSeq(predictions', 1, Len(predictions)) = predictions
        \/ /\ Ran("clear")
           /\ predictions' = <<>>]_vars

\* a second, different record was put after the first
C8_Witness ==
    /\ page.event = "analyze"
    /\ Len(predictions) = 2
    /\ predictions[1] # predictions[2]
    /\ predictions[2].predicted_level = page.shown_level

\* C9: the external model is called, and a record appended, only in a run
\* with a non-empty key, setup_gemini True, a file uploaded and Analyze
\* pressed.
C9_CallNeedsValidKey ==
    [][((clock' = clock /\ page'.call # "none")
            \/ Len(predictions') > Len(predictions)) =>
        /\ api_key' # ""
        /\ page'.key_valid
        /\ uploaded'
        /\ Ran("analyze")]_vars

\* the model was called and the record appended
C9_Witness ==
    /\ page.call = "replied"
    /\ page.key_valid
    /\ api_key # ""
    /\ uploaded
    /\ JustSaved
    /\ predictions # <<>>

\* C10: Clear History is on the page only when the list is not empty, and it
\* runs only from such a state; from a state with an empty list and a file
\* on disk every step keeps the file, unchanged or rewritten by an append.
C10_ClearOnlyWhenNonEmpty ==
    /\ [](page.clear_button => predictions # <<>>)
    /\ [][/\ Ran("clear") => predictions # <<>>
          /\ (predictions = <<>> /\ csv.exists) =>
                /\ csv'.exists
                /\ \/ csv' = csv
                   \/ /\ Len(predictions') = 1
                      /\ RecordOfRow(csv'.rows[1]) = predictions'[1]
                      /\ Len(csv'.rows) = 1]_vars

\* a new session with the earlier session's file still on disk
C10_Witness ==
    /\ predictions = <<>>
    /\ csv.exists
    /\ csv.rows # <<>>
    /\ ~page.clear_button

====
